---- MODULE Spec2Model ----
(***************************************************************************)
(* A model of the Bindle archive engine (src/c/bindle.c).                  *)
(*                                                                         *)
(* The archive file is modelled byte for byte: the 8-byte magic, payloads  *)
(* padded to 8, the packed 32-byte index records followed by the name and  *)
(* its padding, and the 16-byte footer.  A handle keeps its entries as the *)
(* raw BindleEntryRaw bytes plus the name buffer, exactly as the C struct  *)
(* does, so whatever open() parses from a damaged file is what later       *)
(* operations use and what save() writes back.                             *)
(*                                                                         *)
(* stdio buffering is part of the model: bytes written with fwrite and not *)
(* yet flushed sit in the handle's `pending` buffer and reach the file at  *)
(* the next fseek, fflush or fclose on that stream (or at once, when the   *)
(* C library writes them through).                                         *)
(***************************************************************************)
EXTENDS Integers, Sequences, FiniteSets, TLC

(* ------------------------------------------------------------------------ *)
(* Bounds of the model                                                       *)
(* ------------------------------------------------------------------------ *)

\* add calls explored in one behaviour (over all handles)
MaxAdds == 3

\* bindle_open calls explored in one behaviour, plus one for every process
\* after the first
MaxOpens == 2

\* add calls explored in one behaviour of two processes taking any step
MaxAddsMulti == 2

\* bindle_remove calls explored in one behaviour (over all handles)
MaxRemoves == 1

\* largest entry_count open() is followed through (beyond it malloc of the
\* entry table is the only thing that happens before the process dies)
MaxCount == 2

\* largest name_len open() is followed through
MaxNameLen == 2

\* no write is followed past this file offset
MaxFile == 200

\* archive handles (processes) that may exist
Handles == {1, 2}

\* inode numbers: one per handle, one for the path, one for <path>.tmp
Inodes == 1 .. (Cardinality(Handles) + 2)

\* entry names (NUL-free C strings) offered to add and remove
Names == {<<97>>, <<98, 98>>}

\* the entry name the adds of two processes taking any step use
NameMulti == <<97>>

\* the bytes the k-th add call of a behaviour is given: every call has its
\* own, of length k, a run of one byte when k is even
Blob(k) ==
  IF k % 2 = 0 THEN [i \in 1..k |-> 2] ELSE [i \in 1..k |-> 1 + (i % 2)]

\* what malloc'ed memory that fread did not fill may hold
UninitFill == {0, 1}

(* ------------------------------------------------------------------------ *)
(* The program's constants                                                   *)
(* ------------------------------------------------------------------------ *)

\* "BINDL001"
BNDL_MAGIC == <<66, 73, 78, 68, 76, 48, 48, 49>>
BNDL_ALIGN == 8
\* sizeof(BindleEntryRaw), sizeof(BindleFooterRaw): packed structs
EntryRawSize == 32
FooterRawSize == 16

BindleCompressNone == 0
BindleCompressZstd == 1
BindleCompressAuto == 2
BindleCompress == {BindleCompressNone, BindleCompressZstd, BindleCompressAuto}

\* (((n) + (m) - 1) & ~((m) - 1)): for m a power of two (it is BNDL_ALIGN),
\* clearing the low bits of n + m - 1 rounds it down to a multiple of m
ALIGN_UP(n, m) == ((n + m - 1) \div m) * m

(* ------------------------------------------------------------------------ *)
(* Bytes and integers                                                        *)
(* ------------------------------------------------------------------------ *)

Min(a, b) == IF a < b THEN a ELSE b
Max(a, b) == IF a > b THEN a ELSE b

Zeros(n) == [i \in 1..n |-> 0]
Fill(n, u) == [i \in 1..n |-> u]

\* Values of 2^30 and more are all represented by Huge: they lie beyond every
\* file offset and size of the model, and the code only seeks to them, reads
\* at them (nothing is there) or copies them.
Huge == 64 * 16777216

RECURSIVE LE(_, _)
\* n as k little-endian bytes
LE(n, k) == IF k = 0 THEN <<>> ELSE <<n % 256>> \o LE(n \div 256, k - 1)

\* the unsigned little-endian value of a byte sequence (of 1, 2, 4 or 8 bytes)
Val(b) ==
  LET at(i) == IF i <= Len(b) THEN b[i] ELSE 0
  IN IF (\E i \in 5..Len(b) : b[i] # 0) \/ at(4) >= 64
       THEN Huge
       ELSE at(1) + 256 * at(2) + 65536 * at(3) + 16777216 * at(4)

\* a C string: the bytes before the first NUL
CStr(b) ==
  LET z == {i \in 1..Len(b) : b[i] = 0}
  IN IF z = {} THEN b
     ELSE SubSeq(b, 1, (CHOOSE i \in z : \A j \in z : i <= j) - 1)

(* ------------------------------------------------------------------------ *)
(* Files                                                                     *)
(* ------------------------------------------------------------------------ *)

\* fread of up to n bytes at offset p: the bytes that are there
ReadAt(f, p, n) ==
  IF p >= Len(f) \/ n <= 0 THEN <<>> ELSE SubSeq(f, p + 1, Min(p + n, Len(f)))

\* the same, with what the destination buffer holds where fread stored
\* nothing: n bytes in all
ReadFill(f, p, n, u) ==
  LET got == ReadAt(f, p, n) IN got \o Fill(n - Len(got), u)

\* fwrite of d at offset p (a gap past the end of the file reads as zeros)
WriteAt(f, p, d) ==
  IF d = <<>> THEN f
  ELSE [i \in 1..Max(Len(f), p + Len(d)) |->
          IF i > p /\ i <= p + Len(d) THEN d[i - p]
          ELSE IF i <= Len(f) THEN f[i] ELSE 0]

(* ------------------------------------------------------------------------ *)
(* The codec (libzstd), scaled down: a frame is a magic byte, the content    *)
(* size, a block type (0 raw, 1 run-length) and the block                    *)
(* ------------------------------------------------------------------------ *)

ZSTD_compress(data) ==
  LET n == Len(data)
  IN <<253, n>> \o
     (IF n >= 2 /\ \A i \in 1..n : data[i] = data[1]
        THEN <<1, data[1]>>
        ELSE <<0>> \o data)

\* [size, out]: size < 0 is an error code (ZSTD_isError), out the bytes produced
ZSTD_decompress(src, cap) ==
  LET err(c) == [size |-> 0 - c, out |-> <<>>]
  IN IF Len(src) < 3 THEN err(72)
     ELSE IF src[1] # 253 THEN err(10)
     ELSE IF src[2] > cap THEN err(70)
     ELSE IF src[3] = 0 /\ Len(src) = 3 + src[2]
       THEN [size |-> src[2], out |-> SubSeq(src, 4, Len(src))]
     ELSE IF src[3] = 1 /\ Len(src) = 4 /\ src[2] >= 1
       THEN [size |-> src[2], out |-> Fill(src[2], src[4])]
     ELSE err(20)

(* ------------------------------------------------------------------------ *)
(* Entries: BindleEntry = { BindleEntryRaw meta; char *name; }               *)
(* meta is kept as its 32 packed bytes:                                      *)
(*   offset 1..8, compressed_size 9..16, uncompressed_size 17..24,           *)
(*   crc32 25..28, name_len 29..30, compression_type 31, _reserved 32        *)
(* ------------------------------------------------------------------------ *)

BindleEntryRaw(offset, c_size, len, crc32, name_len, compression_type, reserved) ==
  LE(offset, 8) \o LE(c_size, 8) \o LE(len, 8) \o
  LE(crc32, 4) \o LE(name_len, 2) \o <<compression_type % 256, reserved % 256>>

m_offset(m) == Val(SubSeq(m, 1, 8))
m_compressed_size(m) == Val(SubSeq(m, 9, 16))
m_uncompressed_size(m) == Val(SubSeq(m, 17, 24))
m_crc32(m) == SubSeq(m, 25, 28)
m_name_len(m) == Val(SubSeq(m, 29, 30))
m_compression_type(m) == m[31]

BindleFooterRaw(index_offset, entry_count) ==
  LE(index_offset, 8) \o LE(entry_count, 8)

\* the index of the first entry whose name strcmp's equal to name, or 0
FindEntry(es, name) ==
  LET hits == {i \in 1..Len(es) : CStr(es[i].name) = name}
  IN IF hits = {} THEN 0 ELSE CHOOSE i \in hits : \A j \in hits : i <= j

\* bindle_add, step 3: an existing entry is overwritten in place
ShadowEntry(e, offset, c_size, len, compress) ==
  [e EXCEPT !.meta =
     LE(offset, 8) \o LE(c_size, 8) \o LE(len, 8) \o SubSeq(e.meta, 25, 30) \o
     <<(IF compress # 0 THEN 1 ELSE 0), e.meta[32]>>]

\* bindle_add, step 4: a new entry
NewEntry(name, offset, c_size, len, compress) ==
  [meta |-> BindleEntryRaw(offset, c_size, len, 0, Len(name) % 65536, compress, 0),
   name |-> name]

\* AddEntry with shadowing done as removal and a new entry at the end
AddEntryShadowLast(es, name, offset, c_size, len, compress) ==
  LET i == FindEntry(es, name)
      rest == IF i = 0 THEN es
              ELSE SubSeq(es, 1, i - 1) \o SubSeq(es, i + 1, Len(es))
  IN Append(rest, NewEntry(name, offset, c_size, len, compress))

\* bindle_add, steps 3 and 4: the entry list after the payload was written
AddEntry(es, name, offset, c_size, len, compress) ==
  LET i == FindEntry(es, name)
  IN IF i # 0
       THEN [es EXCEPT ![i] = ShadowEntry(es[i], offset, c_size, len, compress)]
       ELSE Append(es, NewEntry(name, offset, c_size, len, compress))

\* bindle_add, lines 109-122: the bytes add stores for data
StoredPayload(data, compress) ==
  IF compress = BindleCompressZstd THEN ZSTD_compress(data) ELSE data

\* bindle_read on a stream whose contents are f.  [found, len, data]: whether
\* the result is not NULL, *out_len, and the bytes the call stored in the
\* buffer it returns
bindle_read(f, es, name) ==
  LET i == FindEntry(es, name)
  IN IF i = 0 THEN [found |-> FALSE, len |-> 0, data |-> <<>>]
     ELSE LET m == es[i].meta
              c_buf == ReadAt(f, m_offset(m), m_compressed_size(m))
          IN IF m_compression_type(m) = BindleCompressZstd
               THEN \* a c_buf that fread did not fill holds no frame
                    LET r == IF Len(c_buf) = m_compressed_size(m)
                               THEN ZSTD_decompress(c_buf, m_uncompressed_size(m))
                               ELSE [size |-> 0 - 20, out |-> <<>>]
                    IN [found |-> TRUE, len |-> r.size, data |-> r.out]
               ELSE [found |-> TRUE, len |-> m_compressed_size(m), data |-> c_buf]

\* the name bytes save and vacuum write: name_len bytes of the name buffer
NameBytes(e) ==
  [i \in 1..m_name_len(e.meta) |-> IF i <= Len(e.name) THEN e.name[i] ELSE 0]

\* one index record: EntryRaw, name, padding to 8
IndexRecord(e) ==
  LET consumed == EntryRawSize + m_name_len(e.meta)
  IN e.meta \o NameBytes(e) \o Zeros(ALIGN_UP(consumed, BNDL_ALIGN) - consumed)

RECURSIVE IndexBytes(_)
IndexBytes(es) ==
  IF es = <<>> THEN <<>> ELSE IndexRecord(Head(es)) \o IndexBytes(Tail(es))

\* bindle_save, lines 205-220: the file after index and footer were written
SaveFile(f, es, data_end) ==
  WriteAt(f, data_end, IndexBytes(es) \o BindleFooterRaw(data_end, Len(es)))

RECURSIVE ParseIndex(_, _, _, _)
\* bindle_open, lines 91-100: count records read from offset p of f; memory
\* that a short fread left unfilled holds u.  [es, whole, ok]: the entries,
\* whether every fread was complete, and whether every name_len was within
\* MaxNameLen (parsing is not followed past one that is not).
ParseIndex(f, p, count, u) ==
  IF count = 0 THEN [es |-> <<>>, whole |-> TRUE, ok |-> TRUE]
  ELSE
    LET mraw == ReadAt(f, p, EntryRawSize)
        meta == mraw \o Fill(EntryRawSize - Len(mraw), u)
        p1 == p + Len(mraw)
        nl == m_name_len(meta)
    IN IF nl > MaxNameLen THEN [es |-> <<>>, whole |-> FALSE, ok |-> FALSE]
       ELSE
         LET nraw == ReadAt(f, p1, nl)
             name == nraw \o Fill(nl - Len(nraw), u)
             p2 == p1 + Len(nraw)
             consumed == EntryRawSize + nl
             p3 == p2 + (ALIGN_UP(consumed, BNDL_ALIGN) - consumed)
             rest == ParseIndex(f, p3, count - 1, u)
         IN [es |-> <<[meta |-> meta, name |-> name]>> \o rest.es,
             whole |-> Len(mraw) = EntryRawSize /\ Len(nraw) = nl /\ rest.whole,
             ok |-> rest.ok]

\* bindle_open, lines 61-101, on a non-empty file f.
\* [handle, count_ok, data_end, es, whole]: handle is FALSE when open returns NULL.
OpenParse(f, u) ==
  LET file_size == Len(f)
      none == [handle |-> FALSE, ok |-> TRUE, data_end |-> 0, es |-> <<>>,
               whole |-> TRUE]
  IN IF ReadAt(f, 0, 8) # BNDL_MAGIC THEN none
     ELSE
       \* fseek to a negative offset fails and leaves the position after the magic
       LET fpos == IF file_size >= FooterRawSize THEN file_size - FooterRawSize ELSE 8
           footer == ReadAt(f, fpos, FooterRawSize)
       IN IF Len(footer) # FooterRawSize THEN none
          ELSE
            LET index_offset == Val(SubSeq(footer, 1, 8))
                entry_count == Val(SubSeq(footer, 9, 16))
            IN IF entry_count > MaxCount
                 THEN [none EXCEPT !.ok = FALSE]
                 ELSE LET ix == ParseIndex(f, index_offset, entry_count, u)
                      IN [handle |-> TRUE, ok |-> ix.ok, data_end |-> index_offset,
                          es |-> ix.es, whole |-> ix.whole]

RECURSIVE VacuumCopyPaddedSize(_, _, _, _)
\* VacuumCopy that also records the padded length as the compressed size
VacuumCopyPaddedSize(f, es, cur, u) ==
  IF es = <<>> THEN [out |-> <<>>, es |-> <<>>, cur |-> cur]
  ELSE
    LET e == Head(es)
        size == m_compressed_size(e.meta)
        buf == ReadFill(f, m_offset(e.meta), size, u)
        pad == ALIGN_UP(size, BNDL_ALIGN) - size
        rest == VacuumCopyPaddedSize(f, Tail(es), cur + size + pad, u)
    IN [out |-> buf \o Zeros(pad) \o rest.out,
        es |-> <<[e EXCEPT !.meta = LE(cur, 8) \o LE(size + pad, 8) \o
                                    SubSeq(e.meta, 17, 32)]>> \o rest.es,
        cur |-> rest.cur]

RECURSIVE VacuumCopyOldOffsets(_, _, _, _)
\* VacuumCopy without line 275: the entries keep the offsets of the old file
VacuumCopyOldOffsets(f, es, cur, u) ==
  IF es = <<>> THEN [out |-> <<>>, es |-> <<>>, cur |-> cur]
  ELSE
    LET e == Head(es)
        size == m_compressed_size(e.meta)
        buf == ReadFill(f, m_offset(e.meta), size, u)
        pad == ALIGN_UP(size, BNDL_ALIGN) - size
        rest == VacuumCopyOldOffsets(f, Tail(es), cur + size + pad, u)
    IN [out |-> buf \o Zeros(pad) \o rest.out,
        es |-> <<e>> \o rest.es,
        cur |-> rest.cur]

RECURSIVE VacuumCopy(_, _, _, _)
\* bindle_vacuum, lines 264-284: entries es copied from f; [out, es, cur]: the
\* bytes written to the temporary file from offset cur on, the entries with
\* their new offsets, and the final current_offset
VacuumCopy(f, es, cur, u) ==
  IF es = <<>> THEN [out |-> <<>>, es |-> <<>>, cur |-> cur]
  ELSE
    LET e == Head(es)
        size == m_compressed_size(e.meta)
        buf == ReadFill(f, m_offset(e.meta), size, u)
        pad == ALIGN_UP(size, BNDL_ALIGN) - size
        rest == VacuumCopy(f, Tail(es), cur + size + pad, u)
    IN [out |-> buf \o Zeros(pad) \o rest.out,
        es |-> <<[e EXCEPT !.meta = LE(cur, 8) \o SubSeq(e.meta, 9, 32)]>> \o rest.es,
        cur |-> rest.cur]

\* a vacuum that reports the end of the magic as the start of the index
VacuumFileIndexAtStart(f, es, u) ==
  LET c == VacuumCopy(f, es, 8, u)
  IN [file |-> BNDL_MAGIC \o c.out \o IndexBytes(c.es) \o
               BindleFooterRaw(c.cur, Len(es)),
      es |-> c.es,
      index_start |-> 8]

\* bindle_vacuum, lines 259-301: the temporary file and the rewritten entries
VacuumFile(f, es, u) ==
  LET c == VacuumCopy(f, es, 8, u)
  IN [file |-> BNDL_MAGIC \o c.out \o IndexBytes(c.es) \o
               BindleFooterRaw(c.cur, Len(es)),
      es |-> c.es,
      index_start |-> c.cur]

(* ------------------------------------------------------------------------ *)
(* State                                                                     *)
(* ------------------------------------------------------------------------ *)

VARIABLES
  files,     \* inode -> the bytes of the file (<<>> for an inode not in use)
  pathIno,   \* the inode the archive path names, 0 while the path does not exist
  active,    \* the handles (processes) of this run
  pc,        \* handle -> "closed", "idle", or where it is inside bindle_save
  fp,        \* handle -> the inode its FILE* is open on (0: no stream)
  lock,      \* handle -> the flock it holds on fp: "UN", "SH" or "EX"
  entries,   \* handle -> b->entries (b->count is its length)
  data_end,  \* handle -> b->data_end
  pending,   \* handle -> bytes fwrite has buffered and not yet written: [pos, data]
  nadds,     \* add calls made so far
  nopens,    \* open calls made so far
  nrems,     \* remove calls made so far
  g,         \* handle -> history of the handle (see below); not program state
  pg,        \* the history of the handle that was closed last, until the next open
  commit,    \* the handle whose save wrote last, the entry list it wrote, and
             \* whether no file was written since
  last       \* the step taken last, with its arguments

vars == <<files, pathIno, active, pc, fp, lock, entries, data_end, pending,
          nadds, nopens, nrems, g, pg, commit, last>>

NoPending == [pos |-> 0, data |-> <<>>]

\* the contents of the stream of h as h reads them: every read starts with an
\* fseek, which writes the buffered bytes out first
Stream(h) == WriteAt(files[fp[h]], pending[h].pos, pending[h].data)

\* bindle_length
bindle_length(h) == Len(entries[h])

\* bindle_entry_name for index 1..count
bindle_entry_name(h, i) == CStr(entries[h][i].name)

EntryNames(h) == [i \in 1..Len(entries[h]) |-> bindle_entry_name(h, i)]

\* what reading every entry by name returns, in list order
ViewOf(f, es) ==
  [i \in 1..Len(es) |->
     [name |-> CStr(es[i].name), read |-> bindle_read(f, es, CStr(es[i].name))]]

View(h) == ViewOf(Stream(h), entries[h])

(* ---- history kept for stating the properties ---------------------------- *)
(* exp   : the <<name, bytes>> pairs the handle should hold: the first add of *)
(*         a name appends, a later add replaces the bytes in place, remove    *)
(*         deletes                                                            *)
(* cexp  : exp as of the last completed save or vacuum                        *)
(* sv    : the entry list the last save of this history wrote                 *)
(* how   : how the handle came to be: "fresh" (opened on an empty file),      *)
(*         "reopen" (opened after a close that directly followed a save or    *)
(*         vacuum), "lostadd" (opened after a close that followed add calls   *)
(*         made after a save), "lost" (opened after any other close)          *)
(* lin   : what the history of the archive holds besides add and save:        *)
(*         "vacuum", "remove", and the `how` of earlier handles other than    *)
(*         "fresh"                                                            *)
(* since : the kinds of mutation since the last save or vacuum                *)
(* ever  : a save or vacuum has completed                                     *)

\* The histories g and pg are kept in runs of one process, commit in runs of
\* several processes.
Solo == Cardinality(active) = 1

NoHistory == [exp |-> <<>>, cexp |-> <<>>, sv |-> <<>>, how |-> "fresh",
              lin |-> {}, since |-> {}, ever |-> FALSE]

\* the history of a handle opened on the file a handle with history p left
HowAfter(p) ==
  IF p.ever /\ p.since = {} THEN "reopen"
  ELSE IF p.ever /\ p.since = {"add"} THEN "lostadd"
  ELSE "lost"

LinAfter(p) == p.lin \cup (IF p.how = "fresh" THEN {} ELSE {p.how})

HistoryAfter(p) ==
  [exp |-> p.cexp, cexp |-> p.cexp, sv |-> p.sv, how |-> HowAfter(p),
   lin |-> LinAfter(p), since |-> {}, ever |-> p.ever]

ExpFind(exp, name) ==
  LET hits == {i \in 1..Len(exp) : exp[i].name = name}
  IN IF hits = {} THEN 0 ELSE CHOOSE i \in hits : TRUE

ExpAdd(exp, name, data) ==
  LET i == ExpFind(exp, name)
  IN IF i # 0 THEN [exp EXCEPT ![i].data = data]
     ELSE Append(exp, [name |-> name, data |-> data])

ExpRemove(exp, name) ==
  LET i == ExpFind(exp, name)
  IN IF i = 0 THEN exp
     ELSE SubSeq(exp, 1, i - 1) \o SubSeq(exp, i + 1, Len(exp))

ExpNames(exp) == [i \in 1..Len(exp) |-> exp[i].name]

ExpView(exp) ==
  [i \in 1..Len(exp) |->
     [name |-> exp[i].name,
      read |-> [found |-> TRUE, len |-> Len(exp[i].data), data |-> exp[i].data]]]

\* what a step records of the state before it (vacuum), or of its parse (open)
NoPre == [view |-> <<>>, count |-> 0, size |-> 0, plain |-> FALSE,
          saved |-> FALSE, whole |-> TRUE]

Last(op, h, ok, name, data, compress, pre) ==
  [op |-> op, h |-> h, ok |-> ok, name |-> name, data |-> data,
   compress |-> compress, pre |-> pre]

(* ---- inodes -------------------------------------------------------------- *)

RECURSIVE InoOrder(_, _, _)
\* the inodes in use, the path's first, then in the order of the handles
InoOrder(k, fps, acc) ==
  IF k > Cardinality(Handles) THEN acc
  ELSE InoOrder(k + 1, fps,
                IF fps[k] = 0 \/ \E j \in 1..Len(acc) : acc[j] = fps[k]
                  THEN acc ELSE Append(acc, fps[k]))

\* Inode numbers carry no meaning: they are renumbered in that order, so that
\* the same files and streams are the same state.  An inode that neither the
\* path nor a stream refers to is gone.
Canon(fs, path, fps) ==
  LET ord == InoOrder(1, fps, IF path = 0 THEN <<>> ELSE <<path>>)
      idx(i) == CHOOSE j \in 1..Len(ord) : ord[j] = i
  IN [files |-> [i \in Inodes |-> IF i <= Len(ord) THEN fs[ord[i]] ELSE <<>>],
      path |-> IF path = 0 THEN 0 ELSE 1,
      fp |-> [h \in Handles |-> IF fps[h] = 0 THEN 0 ELSE idx(fps[h])]]

\* an inode not in use (for a file about to be created)
FreeInode(path, fps) ==
  CHOOSE i \in Inodes : i # path /\ \A h \in Handles : fps[h] # i

\* flock: no other open file description holds a lock of these kinds on inode i
NoOther(h, i, kinds) ==
  \A o \in Handles \ {h} : fp[o] = i => lock[o] \notin kinds

(* ------------------------------------------------------------------------ *)
(* Initial states                                                            *)
(* ------------------------------------------------------------------------ *)

InitWith(hs) ==
  /\ files = [i \in Inodes |-> <<>>]
  /\ pathIno = 0
  /\ active = hs
  /\ pc = [h \in Handles |-> "closed"]
  /\ fp = [h \in Handles |-> 0]
  /\ lock = [h \in Handles |-> "UN"]
  /\ entries = [h \in Handles |-> <<>>]
  /\ data_end = [h \in Handles |-> 0]
  /\ pending = [h \in Handles |-> NoPending]
  /\ nadds = 0
  /\ nopens = 0
  /\ nrems = 0
  /\ g = [h \in Handles |-> NoHistory]
  /\ pg = NoHistory
  /\ commit = [quiet |-> FALSE, writer |-> 0, sv |-> <<>>]
  /\ last = Last("none", 0, TRUE, <<>>, <<>>, 0, NoPre)

\* one process using the archive
Init == InitWith({1})

\* two processes using the same path
InitMulti == InitWith(Handles)

(* ------------------------------------------------------------------------ *)
(* Operations                                                                *)
(* ------------------------------------------------------------------------ *)

\* bindle_open(path).  fopen "r+b", else "w+b" creates the file; flock(LOCK_SH)
\* waits while another description holds the exclusive lock.
bindle_open(h, u) ==
  /\ pc[h] = "closed"
  /\ nopens < MaxOpens + Cardinality(active) - 1
  /\ nopens' = nopens + 1
  /\ LET ino == IF pathIno = 0 THEN FreeInode(0, fp) ELSE pathIno
         f == files[ino]
         c == Canon(files, ino, [fp EXCEPT ![h] = ino])
     IN /\ NoOther(h, ino, {"EX"})
        /\ IF Len(f) = 0
             THEN \* lines 64-68: a new archive; the magic is written, not flushed
                  /\ u = 0
                  /\ pathIno' = c.path
                  /\ files' = c.files
                  /\ fp' = c.fp
                  /\ pc' = [pc EXCEPT ![h] = "idle"]
                  /\ lock' = [lock EXCEPT ![h] = "SH"]
                  /\ entries' = [entries EXCEPT ![h] = <<>>]
                  /\ data_end' = [data_end EXCEPT ![h] = 8]
                  /\ pending' = [pending EXCEPT ![h] = [pos |-> 0, data |-> BNDL_MAGIC]]
                  /\ g' = [g EXCEPT ![h] = NoHistory]
                  /\ pg' = NoHistory
                  /\ last' = Last("open", h, TRUE, <<>>, <<>>, 0, NoPre)
             ELSE LET r == OpenParse(f, u)
                  IN /\ r.ok
                     \* u is what unfilled memory holds: one value when none is
                     /\ r.whole => u = 0
                     /\ IF r.handle
                          THEN /\ pathIno' = c.path
                               /\ files' = c.files
                               /\ fp' = c.fp
                               /\ pc' = [pc EXCEPT ![h] = "idle"]
                               /\ lock' = [lock EXCEPT ![h] = "SH"]
                               /\ entries' = [entries EXCEPT ![h] = r.es]
                               /\ data_end' = [data_end EXCEPT ![h] = r.data_end]
                               /\ g' = IF Solo THEN [g EXCEPT ![h] = HistoryAfter(pg)] ELSE g
                               /\ pg' = NoHistory
                          ELSE \* lines 73-76, 81-84: bindle_close, return NULL
                               UNCHANGED <<pathIno, files, fp, pc, lock, entries,
                                           data_end, g, pg>>
                     /\ pending' = [pending EXCEPT ![h] = NoPending]
                     /\ last' = Last("open", h, r.handle, <<>>, <<>>, 0,
                                     [NoPre EXCEPT !.whole = r.whole])
  /\ UNCHANGED <<active, nadds, nrems, commit>>

\* bindle_add(b, name, data, len, compress).  through: the C library writes
\* the payload to the file during the call instead of keeping it buffered.
bindle_add(h, name, data, compress, through) ==
  /\ pc[h] = "idle"
  /\ nadds < MaxAdds
  /\ LET payload == StoredPayload(data, compress)
         c_size == Len(payload)
         offset == data_end[h]
         bytes == payload \o Zeros(ALIGN_UP(c_size, BNDL_ALIGN) - c_size)
     IN /\ offset + Len(bytes) <= MaxFile
        /\ IF through
             THEN /\ files' = [files EXCEPT ![fp[h]] = WriteAt(Stream(h), offset, bytes)]
                  /\ pending' = [pending EXCEPT ![h] = NoPending]
             ELSE /\ files' = [files EXCEPT ![fp[h]] = Stream(h)]
                  /\ pending' = [pending EXCEPT ![h] =
                                   IF bytes = <<>> THEN NoPending
                                   ELSE [pos |-> offset, data |-> bytes]]
        /\ data_end' = [data_end EXCEPT ![h] = offset + Len(bytes)]
        /\ entries' = [entries EXCEPT ![h] =
                         AddEntry(entries[h], name, offset, c_size, Len(data), compress)]
  /\ nadds' = nadds + 1
  /\ g' = IF Solo THEN [g EXCEPT ![h].exp = ExpAdd(@, name, data),
                                  ![h].since = @ \cup {"add"}]
          ELSE g
  /\ commit' = IF Solo THEN commit ELSE [commit EXCEPT !.quiet = FALSE]
  /\ last' = Last("add", h, TRUE, name, data, compress, NoPre)
  /\ UNCHANGED <<pathIno, active, pc, fp, lock, nopens, nrems, pg>>

\* the entry list without its first entry named name
RemoveEntry(es, name) ==
  LET i == FindEntry(es, name)
  IN IF i = 0 THEN es ELSE SubSeq(es, 1, i - 1) \o SubSeq(es, i + 1, Len(es))

\* bindle_remove(b, name): the entry leaves the in-memory list; no I/O
bindle_remove(h, name) ==
  /\ pc[h] = "idle"
  /\ nrems < MaxRemoves
  \* for a name that is not there remove returns false and changes nothing
  /\ FindEntry(entries[h], name) # 0
  /\ entries' = [entries EXCEPT ![h] = RemoveEntry(entries[h], name)]
  /\ nrems' = nrems + 1
  /\ g' = IF Solo THEN [g EXCEPT ![h].exp = ExpRemove(@, name),
                                  ![h].lin = @ \cup {"remove"},
                                  ![h].since = @ \cup {"remove"}]
          ELSE g
  /\ last' = Last("remove", h, TRUE, name, <<>>, 0, NoPre)
  /\ UNCHANGED <<files, pathIno, active, pc, fp, lock, data_end, pending, nadds,
                 nopens, pg, commit>>

\* a save that asks for the exclusive lock while it keeps its shared lock
save_begin_keeps_lock(h) ==
  /\ pc[h] = "idle"
  /\ pc' = [pc EXCEPT ![h] = "save_ex"]
  /\ last' = Last("save_begin", h, TRUE, <<>>, <<>>, 0, NoPre)
  /\ UNCHANGED <<files, pathIno, active, fp, lock, entries, data_end, pending,
                 nadds, nopens, nrems, g, pg, commit>>

\* bindle_save, line 204: flock(LOCK_EX) gives up the shared lock, then waits
\* for the exclusive one
save_begin(h) ==
  /\ pc[h] = "idle"
  /\ pc' = [pc EXCEPT ![h] = "save_ex"]
  /\ lock' = [lock EXCEPT ![h] = "UN"]
  /\ last' = Last("save_begin", h, TRUE, <<>>, <<>>, 0, NoPre)
  /\ UNCHANGED <<files, pathIno, active, fp, entries, data_end, pending, nadds,
                 nopens, nrems, g, pg, commit>>

\* bindle_save, lines 204-221: the exclusive lock is granted; index and footer
\* are written at data_end and flushed
save_write(h) ==
  /\ pc[h] = "save_ex"
  /\ NoOther(h, fp[h], {"SH", "EX"})
  /\ data_end[h] + Len(IndexBytes(entries[h])) + FooterRawSize <= MaxFile
  /\ files' = [files EXCEPT ![fp[h]] = SaveFile(Stream(h), entries[h], data_end[h])]
  /\ pending' = [pending EXCEPT ![h] = NoPending]
  /\ lock' = [lock EXCEPT ![h] = "EX"]
  /\ pc' = [pc EXCEPT ![h] = "save_written"]
  /\ g' = IF Solo THEN [g EXCEPT ![h].cexp = g[h].exp,
                                  ![h].sv = entries[h],
                                  ![h].since = {},
                                  ![h].ever = TRUE]
          ELSE g
  /\ commit' = IF Solo THEN commit ELSE [quiet |-> TRUE, writer |-> h, sv |-> entries[h]]
  /\ last' = Last("save_write", h, TRUE, <<>>, <<>>, 0, NoPre)
  /\ UNCHANGED <<pathIno, active, fp, entries, data_end, nadds, nopens, nrems, pg>>

\* bindle_save, line 222: flock(LOCK_SH) gives up the exclusive lock ...
save_unlock(h) ==
  /\ pc[h] = "save_written"
  /\ lock' = [lock EXCEPT ![h] = "UN"]
  /\ pc' = [pc EXCEPT ![h] = "save_sh"]
  /\ last' = Last("save_unlock", h, TRUE, <<>>, <<>>, 0, NoPre)
  /\ UNCHANGED <<files, pathIno, active, fp, entries, data_end, pending, nadds,
                 nopens, nrems, g, pg, commit>>

\* ... and takes the shared lock again; bindle_save returns true
save_end(h) ==
  /\ pc[h] = "save_sh"
  /\ NoOther(h, fp[h], {"EX"})
  /\ lock' = [lock EXCEPT ![h] = "SH"]
  /\ pc' = [pc EXCEPT ![h] = "idle"]
  /\ last' = Last("save", h, TRUE, <<>>, <<>>, 0, NoPre)
  /\ UNCHANGED <<files, pathIno, active, fp, entries, data_end, pending, nadds,
                 nopens, nrems, g, pg, commit>>

\* bindle_vacuum(b), with rename and the re-open succeeding
bindle_vacuum(h, u) ==
  /\ pc[h] = "idle"
  /\ \A i \in 1..Len(entries[h]) :
       m_compressed_size(entries[h][i].meta) <= MaxFile
  \* u is what unfilled memory holds: one value when every fread is complete
  /\ (\A i \in 1..Len(entries[h]) :
        m_offset(entries[h][i].meta) + m_compressed_size(entries[h][i].meta)
          <= Len(Stream(h))) => u = 0
  /\ LET old == fp[h]
         v == VacuumFile(Stream(h), entries[h], u)
         tmp == FreeInode(pathIno, fp)
         \* fclose(b->fp) writes out what was buffered; rename; fopen
         c == Canon([files EXCEPT ![old] = Stream(h), ![tmp] = v.file], tmp,
                    [fp EXCEPT ![h] = tmp])
     IN /\ Len(v.file) <= MaxFile
        /\ files' = c.files
        /\ pathIno' = c.path
        /\ fp' = c.fp
        /\ entries' = [entries EXCEPT ![h] = v.es]
        /\ data_end' = [data_end EXCEPT ![h] = v.index_start]
        /\ g' = IF Solo THEN [g EXCEPT ![h].cexp = g[h].exp,
                                        ![h].sv = v.es,
                                        ![h].lin = @ \cup {"vacuum"},
                                        ![h].since = {},
                                        ![h].ever = TRUE]
                ELSE g
        /\ last' = Last("vacuum", h, TRUE, <<>>, <<>>, 0,
                        IF Solo
                          THEN [view |-> View(h), count |-> Len(entries[h]),
                                size |-> Len(files[pathIno]),
                                plain |-> g[h].how = "fresh" /\ g[h].lin = {},
                                saved |-> g[h].ever /\ g[h].since = {},
                                whole |-> TRUE]
                          ELSE NoPre)
  /\ lock' = [lock EXCEPT ![h] = "SH"]
  /\ pending' = [pending EXCEPT ![h] = NoPending]
  /\ commit' = IF Solo THEN commit ELSE [commit EXCEPT !.quiet = FALSE]
  /\ UNCHANGED <<active, pc, nadds, nopens, nrems, pg>>

\* bindle_close(b): unlock, free, fclose (which writes out what was buffered)
bindle_close(h) ==
  /\ pc[h] = "idle"
  /\ LET c == Canon([files EXCEPT ![fp[h]] = Stream(h)], pathIno,
                    [fp EXCEPT ![h] = 0])
     IN /\ files' = c.files
        /\ pathIno' = c.path
        /\ fp' = c.fp
  /\ pc' = [pc EXCEPT ![h] = "closed"]
  /\ lock' = [lock EXCEPT ![h] = "UN"]
  /\ entries' = [entries EXCEPT ![h] = <<>>]
  /\ data_end' = [data_end EXCEPT ![h] = 0]
  /\ pending' = [pending EXCEPT ![h] = NoPending]
  /\ pg' = g[h]
  /\ g' = [g EXCEPT ![h] = NoHistory]
  /\ commit' = IF Solo THEN commit ELSE [commit EXCEPT !.quiet = @ /\ pending[h].data = <<>>]
  /\ last' = Last("close", h, TRUE, <<>>, <<>>, 0, NoPre)
  /\ UNCHANGED <<active, nadds, nopens, nrems>>

Next ==
  \/ \E h \in active, u \in UninitFill : bindle_open(h, u)
  \/ \E h \in active, name \in Names, compress \in BindleCompress,
        through \in BOOLEAN :
          bindle_add(h, name, Blob(nadds + 1), compress, through)
  \/ \E h \in active, name \in Names : bindle_remove(h, name)
  \/ \E h \in active : save_begin(h)
  \/ \E h \in active : save_write(h)
  \/ \E h \in active : save_unlock(h)
  \/ \E h \in active : save_end(h)
  \/ \E h \in active, u \in UninitFill : bindle_vacuum(h, u)
  \/ \E h \in active : bindle_close(h)

\* A writer (handle 1: open, add, save) and an opener (handle 2: open, close).
NextTorn ==
  \/ \E h \in active, u \in UninitFill : bindle_open(h, u)
  \/ \E name \in Names, through \in BOOLEAN :
          bindle_add(1, name, Blob(nadds + 1), BindleCompressNone, through)
  \/ save_begin(1)
  \/ save_write(1)
  \/ save_unlock(1)
  \/ save_end(1)
  \/ bindle_close(2)

\* Two processes, each taking any step.  The codec, the choice of names and
\* bindle_remove play no part in what one process sees of the other's writes:
\* every add is of NameMulti, uncompressed.
NextMulti ==
  \/ \E h \in active, u \in UninitFill : bindle_open(h, u)
  \/ \E h \in active, through \in BOOLEAN :
          /\ nadds < MaxAddsMulti
          /\ bindle_add(h, NameMulti, Blob(nadds + 1), BindleCompressNone, through)
  \/ \E h \in active : save_begin(h)
  \/ \E h \in active : save_write(h)
  \/ \E h \in active : save_unlock(h)
  \/ \E h \in active : save_end(h)
  \/ \E h \in active, u \in UninitFill : bindle_vacuum(h, u)
  \/ \E h \in active : bindle_close(h)

Spec == Init /\ [][Next]_vars

SpecTorn == InitMulti /\ [][NextTorn]_vars

SpecMulti == InitMulti /\ [][NextMulti]_vars

(* ------------------------------------------------------------------------ *)
(* CRC-32 (IEEE 802.3, reflected, polynomial 0xEDB88320), on 32 bits kept    *)
(* least significant first                                                   *)
(* ------------------------------------------------------------------------ *)

\* the bits of 0xEDB88320 that are set (bit 1 is the least significant)
Crc32Poly == {6, 9, 10, 16, 20, 21, 22, 24, 25, 27, 28, 30, 31, 32}

Crc32Bits(n) == [i \in 1..32 |-> IF i <= 8 THEN (n \div (2 ^ (i - 1))) % 2 ELSE 0]

Crc32Xor(a, b) == [i \in 1..32 |-> (a[i] + b[i]) % 2]

\* one bit shifted out
Crc32Shift(c) ==
  LET s == [i \in 1..32 |-> IF i < 32 THEN c[i + 1] ELSE 0]
  IN IF c[1] = 1
       THEN Crc32Xor(s, [i \in 1..32 |-> IF i \in Crc32Poly THEN 1 ELSE 0])
       ELSE s

RECURSIVE Crc32Update(_, _, _)
\* the register after bytes i.. of data
Crc32Update(c, data, i) ==
  IF i > Len(data) THEN c
  ELSE LET x == Crc32Xor(c, Crc32Bits(data[i]))
           s8 == Crc32Shift(Crc32Shift(Crc32Shift(Crc32Shift(
                 Crc32Shift(Crc32Shift(Crc32Shift(Crc32Shift(x))))))))
       IN Crc32Update(s8, data, i + 1)

\* the CRC-32 of data as the 4 bytes of the little-endian uint32_t
CRC32(data) ==
  LET c == Crc32Update([i \in 1..32 |-> 1], data, 1)
      bit(i) == 1 - c[i]
      byte(j) == bit(8 * j + 1) + 2 * bit(8 * j + 2) + 4 * bit(8 * j + 3)
                 + 8 * bit(8 * j + 4) + 16 * bit(8 * j + 5) + 32 * bit(8 * j + 6)
                 + 64 * bit(8 * j + 7) + 128 * bit(8 * j + 8)
  IN <<byte(0), byte(1), byte(2), byte(3)>>

(* ------------------------------------------------------------------------ *)
(* Properties                                                                *)
(* ------------------------------------------------------------------------ *)

\* The history of the handle the last bindle_open returned; where it returned
\* NULL, the history the handle would have had.
OpenHow == IF last.ok THEN g[last.h].how ELSE HowAfter(pg)
OpenLin == IF last.ok THEN g[last.h].lin ELSE LinAfter(pg)

\* what bindle_read returns for data
ReadOf(data) == [found |-> TRUE, len |-> Len(data), data |-> data]

\* the entry named name of handle h (there is one)
EntryOf(h, name) == entries[h][FindEntry(entries[h], name)]

\* C1: a fresh archive, any add and save calls, the last of them a save, then
\* close and open again: every name reads as the bytes of its last add, in
\* the order of the first adds, and length is the number of distinct names.
C1_ReopenReadsLastAdd ==
  (last.op = "open" /\ OpenHow = "reopen" /\ OpenLin = {}) =>
    /\ last.ok
    /\ bindle_length(last.h) = Len(g[last.h].exp)
    /\ View(last.h) = ExpView(g[last.h].exp)

\* C2: right after add(n, b, c) returned true, read(n) on the same handle
\* returns b, with out_len the length of b, whatever the archive held before.
C2_AddThenRead ==
  last.op = "add" =>
    bindle_read(Stream(last.h), entries[last.h], last.name) = ReadOf(last.data)

\* C3 (as claimed): on an archive made by add and save calls, saved or not,
\* a vacuum keeps the length and what every name reads as, and the file at
\* the path is no larger than it was.
C3_VacuumEquivalent ==
  (last.op = "vacuum" /\ last.pre.plain) =>
    /\ bindle_length(last.h) = last.pre.count
    /\ View(last.h) = last.pre.view
    /\ Len(files[pathIno]) <= last.pre.size

\* C3 (amended): on an archive made by add and save calls, saved or not, a
\* vacuum keeps the length and what every name reads as; the file at the path
\* is no larger than it was when nothing was added since the last save.
C3_VacuumEquivalentSaved ==
  (last.op = "vacuum" /\ last.pre.plain) =>
    /\ bindle_length(last.h) = last.pre.count
    /\ View(last.h) = last.pre.view
    /\ last.pre.saved => Len(files[pathIno]) <= last.pre.size

\* C3, a case of it: a vacuum of a saved archive of two names, one of them
\* added twice: the
\* dead payload is gone and the file is smaller
C3_Witness ==
  /\ last.op = "vacuum"
  /\ last.pre.plain
  /\ last.pre.saved
  /\ last.pre.count = 2
  /\ nadds = 3
  /\ Len(files[pathIno]) < last.pre.size

\* C4: on an archive saved earlier, add calls that no save follows, then close
\* and open again: the archive is that of the last save, the same names in
\* the same order reading as the same bytes.
C4_UnsavedAddsLost ==
  (last.op = "open" /\ OpenHow = "lostadd" /\ OpenLin = {}) =>
    /\ last.ok
    /\ View(last.h) = ExpView(g[last.h].exp)

\* C5: entry_name(0 .. length-1) gives the names in the order of their first
\* add; adding a name again leaves its place and the length as they are; and
\* so it is after save, close and open, and after vacuum.
C5_InsertionOrder ==
  \A h \in active :
    (/\ pc[h] # "closed"
     /\ g[h].how \in {"fresh", "reopen"}
     /\ g[h].lin \subseteq {"vacuum", "reopen"}) =>
      EntryNames(h) = ExpNames(g[h].exp)

\* C5, a case of it: two names, the first of them added again after the
\* second, saved, closed,
\* opened and vacuumed
C5_Witness ==
  /\ last.op = "vacuum"
  /\ g[last.h].how = "reopen"
  /\ nadds = 3
  /\ EntryNames(last.h) = <<<<98, 98>>, <<97>>>>

\* C6: on an archive with a saved index, remove(name) and save, then close
\* and open again: name is gone, length is one less, and the other entries
\* are there in their order.
C6_SavedRemovalPersists ==
  (last.op = "open" /\ OpenHow = "reopen" /\ OpenLin = {"remove"}) =>
    /\ last.ok
    /\ EntryNames(last.h) = ExpNames(g[last.h].exp)

\* C7: while handle 1 adds to and saves an archive it saved before, a
\* bindle_open by handle 2, at any moment, returns the archive of the save
\* that wrote last: its entry list, every entry reading as it does for the
\* writer.
C7_OpenNeverTorn ==
  (last.op = "open" /\ last.h = 2 /\ commit.writer = 1) =>
    /\ last.ok
    /\ entries[2] = commit.sv
    /\ View(2) = ViewOf(Stream(1), commit.sv)

\* C8: a save of one handle has returned, no file was written since, and
\* another handle opens the path: it gets the entry list that save wrote,
\* whatever either handle did before the save.
C8_CompletedSaveVisible ==
  (/\ last.op = "open"
   /\ commit.quiet
   /\ commit.writer \notin {0, last.h}
   /\ pc[commit.writer] \in {"idle", "closed"}) =>
    /\ last.ok
    /\ entries[last.h] = commit.sv

\* C9: after add(n, b, c), for a new name or one that exists, the crc32 of
\* entry n is the CRC-32 of b; the index record save writes holds it.
C9_StoredCrc ==
  /\ last.op = "add" => m_crc32(EntryOf(last.h, last.name).meta) = CRC32(last.data)
  /\ (last.op = "save_write" /\ g[last.h].how = "fresh" /\ g[last.h].lin = {}) =>
       LET r == OpenParse(files[fp[last.h]], 0)
       IN \A i \in 1..Len(r.es) :
            m_crc32(r.es[i].meta) = CRC32(g[last.h].exp[i].data)

\* C10: Auto (2) is never recorded: after add in any mode, for a new name or
\* one that exists, compression_type of the entry is 0 or 1, and so it is in
\* every index record save or vacuum writes.
C10_AutoNeverRecorded ==
  /\ last.op = "add" =>
       m_compression_type(EntryOf(last.h, last.name).meta)
         \in {BindleCompressNone, BindleCompressZstd}
  /\ (/\ last.op \in {"save_write", "vacuum"}
      /\ g[last.h].how = "fresh"
      /\ g[last.h].lin \subseteq {"vacuum"}) =>
       LET r == OpenParse(files[fp[last.h]], 0)
       IN \A i \in 1..Len(r.es) :
            m_compression_type(r.es[i].meta)
              \in {BindleCompressNone, BindleCompressZstd}

\* C11: every step of add, save or vacuum that writes the archive file (or
\* renames a file over the path) is taken with the exclusive lock held, and
\* the handle holds the shared lock when the operation returns.
C11_WritesUnderExclusiveLock ==
  [][LET h == last'.h
     IN /\ (last'.op \in {"add", "save_write"} /\ files' # files) =>
             "EX" \in {lock[h], lock'[h]}
        /\ last'.op = "vacuum" => "EX" \in {lock[h], lock'[h]}
        /\ last'.op \in {"add", "save", "vacuum"} => lock'[h] = "SH"]_vars

\* C15: bindle_open of a non-empty file returns a handle only when the file
\* holds the magic and a whole footer after it (24 bytes at least) and every
\* index record and name was read in full.
C15_OpenRejectsTruncated ==
  (last.op = "open" /\ last.ok /\ Len(files[fp[last.h]]) > 0) =>
    /\ Len(files[fp[last.h]]) >= Len(BNDL_MAGIC) + FooterRawSize
    /\ last.pre.whole

\* C17: a successful vacuum changes only the offsets of the entries (and
\* data_end): their number, order, names, name lengths, crc32 values,
\* compression types, compressed and uncompressed sizes stay as they were.
C17_VacuumRewritesOffsetsOnly ==
  [][(last'.op = "vacuum" /\ last'.ok) =>
       LET h == last'.h
       IN /\ Len(entries'[h]) = Len(entries[h])
          /\ \A i \in 1..Len(entries[h]) :
               /\ entries'[h][i].name = entries[h][i].name
               /\ SubSeq(entries'[h][i].meta, 9, 32)
                    = SubSeq(entries[h][i].meta, 9, 32)]_vars

\* C17, a case of it: a vacuum of two entries, one of them compressed, after
\* three adds: the payloads were moved down, the index starts at 24
C17_Witness ==
  /\ last.op = "vacuum"
  /\ last.ok
  /\ nadds = 3
  /\ Len(entries[last.h]) = 2
  /\ data_end[last.h] = 24
  /\ \E i \in 1..2 : m_compression_type(entries[last.h][i].meta) = BindleCompressZstd

\* v is a multiple of BNDL_ALIGN (a value of 2^30 or more is not represented
\* exactly and is not judged)
Aligned(v) == v = Huge \/ v % BNDL_ALIGN = 0

RECURSIVE RecordStarts(_, _)
\* the file offsets at which save and vacuum write the index records of es,
\* the first of them at p
RecordStarts(es, p) ==
  IF es = <<>> THEN {}
  ELSE {p} \cup RecordStarts(Tail(es), p + Len(IndexRecord(Head(es))))

\* C18: after any add, save, vacuum, close and open calls on a fresh archive,
\* data_end and the payload offset of every entry are multiples of 8, and so
\* is the offset of every index record save or vacuum writes.
C18_Alignment ==
  \A h \in active :
    (pc[h] # "closed" /\ "remove" \notin g[h].lin) =>
      /\ Aligned(data_end[h])
      /\ \A i \in 1..Len(entries[h]) : Aligned(m_offset(entries[h][i].meta))
      /\ \A p \in RecordStarts(entries[h], data_end[h]) : Aligned(p)

(* ------------------------------------------------------------------------ *)
(* Operations that fail, and a process that stops                            *)
(* ------------------------------------------------------------------------ *)

\* bindle_add whose fwrite calls (lines 127, 133) fail with an I/O error:
\* nothing reaches the stream.  The results of fwrite are not looked at, so
\* the entry is registered and add returns true.  adv: whether the position
\* ftell reports (line 135) moved on over the bytes that were not written.
bindle_add_ioerr(h, name, data, compress, adv) ==
  /\ pc[h] = "idle"
  /\ nadds < MaxAdds
  /\ LET payload == StoredPayload(data, compress)
         c_size == Len(payload)
         offset == data_end[h]
         padded == ALIGN_UP(c_size, BNDL_ALIGN)
     IN /\ offset + padded <= MaxFile
        /\ files' = [files EXCEPT ![fp[h]] = Stream(h)]
        /\ pending' = [pending EXCEPT ![h] = NoPending]
        /\ data_end' = [data_end EXCEPT ![h] = IF adv THEN offset + padded ELSE offset]
        /\ entries' = [entries EXCEPT ![h] =
                         AddEntry(entries[h], name, offset, c_size, Len(data), compress)]
  /\ nadds' = nadds + 1
  /\ g' = IF Solo THEN [g EXCEPT ![h].lin = @ \cup {"addfail"},
                                  ![h].since = @ \cup {"add"}]
          ELSE g
  /\ commit' = IF Solo THEN commit ELSE [commit EXCEPT !.quiet = FALSE]
  /\ last' = Last("add_ioerr", h, TRUE, name, data, compress, NoPre)
  /\ UNCHANGED <<pathIno, active, pc, fp, lock, nopens, nrems, pg>>

\* bindle_vacuum whose rename fails (lines 310-314): the temporary file was
\* written and the entries got its offsets, the lock was given up and the
\* stream closed; the path is opened again, no lock is taken, data_end keeps
\* its value and vacuum returns false.
bindle_vacuum_norename(h, u) ==
  /\ pc[h] = "idle"
  /\ \A i \in 1..Len(entries[h]) :
       m_compressed_size(entries[h][i].meta) <= MaxFile
  /\ (\A i \in 1..Len(entries[h]) :
        m_offset(entries[h][i].meta) + m_compressed_size(entries[h][i].meta)
          <= Len(Stream(h))) => u = 0
  /\ LET v == VacuumFile(Stream(h), entries[h], u)
         c == Canon([files EXCEPT ![fp[h]] = Stream(h)], pathIno,
                    [fp EXCEPT ![h] = pathIno])
     IN /\ Len(v.file) <= MaxFile
        /\ files' = c.files
        /\ pathIno' = c.path
        /\ fp' = c.fp
        /\ entries' = [entries EXCEPT ![h] = v.es]
  /\ lock' = [lock EXCEPT ![h] = "UN"]
  /\ pending' = [pending EXCEPT ![h] = NoPending]
  /\ g' = IF Solo THEN [g EXCEPT ![h].lin = @ \cup {"vacuumfail"}] ELSE g
  /\ commit' = IF Solo THEN commit ELSE [commit EXCEPT !.quiet = FALSE]
  /\ last' = Last("vacuum", h, FALSE, <<>>, <<>>, 0, NoPre)
  /\ UNCHANGED <<active, pc, data_end, nadds, nopens, nrems, pg>>

\* adds of a run in which fwrite and rename may fail
MaxAddsFail == 2

\* one process; fwrite and rename may fail
NextFail ==
  \/ \E h \in active, u \in UninitFill : bindle_open(h, u)
  \/ \E h \in active, name \in Names, compress \in BindleCompress,
        through \in BOOLEAN :
          /\ nadds < MaxAddsFail
          /\ bindle_add(h, name, Blob(nadds + 1), compress, through)
  \/ \E h \in active, name \in Names, compress \in BindleCompress,
        adv \in BOOLEAN :
          /\ nadds < MaxAddsFail
          /\ bindle_add_ioerr(h, name, Blob(nadds + 1), compress, adv)
  \/ \E h \in active : save_begin(h)
  \/ \E h \in active : save_write(h)
  \/ \E h \in active : save_unlock(h)
  \/ \E h \in active : save_end(h)
  \/ \E h \in active, u \in UninitFill : bindle_vacuum(h, u)
  \/ \E h \in active, u \in UninitFill : bindle_vacuum_norename(h, u)
  \/ \E h \in active : bindle_close(h)

SpecFail == Init /\ [][NextFail]_vars

\* C14: when the payload write of add fails with an I/O error, add returns
\* false and registers nothing: the entry list of the handle (its length and
\* every entry's offset, sizes and compression type) is what it was before
\* the call; only data_end may have moved.
C14_FailedAddRegistersNothing ==
  [][last'.op = "add_ioerr" =>
       /\ ~last'.ok
       /\ entries'[last'.h] = entries[last'.h]]_vars

\* a handle on which vacuum returned false because the rename failed
Poisoned(h) ==
  pc[h] # "closed" /\ g[h].how = "fresh" /\ "vacuumfail" \in g[h].lin

\* C16: after vacuum returned false because the rename failed, every later
\* add, save or vacuum on that handle reports an error, and no read on it
\* returns bytes (which would be located through the rewritten offsets).
C16_PoisonedAfterFailedVacuum ==
  \A h \in active :
    Poisoned(h) =>
      /\ (last.h = h /\ last.op \in {"add", "save_write", "save", "vacuum"}) => ~last.ok
      /\ \A name \in Names : ~bindle_read(Stream(h), entries[h], name).found

\* C19: on a handle reached from a fresh archive through add, save, vacuum
\* (successful or failed) and close followed by reopen after a save, every
\* entry has offset >= 8 and offset + compressed_size <= data_end.
C19_EntriesWithinData ==
  \A h \in active :
    (/\ pc[h] # "closed"
     /\ g[h].how \in {"fresh", "reopen"}
     /\ g[h].lin \subseteq {"vacuum", "vacuumfail", "reopen"}) =>
      \A i \in 1..Len(entries[h]) :
        /\ m_offset(entries[h][i].meta) >= Len(BNDL_MAGIC)
        /\ m_offset(entries[h][i].meta) + m_compressed_size(entries[h][i].meta)
             <= data_end[h]

\* a handle opened after a save that followed a failed and a successful
\* vacuum, holding two entries
C19_Witness ==
  \E h \in active :
    /\ pc[h] = "idle" /\ g[h].how = "reopen"
    /\ g[h].lin = {"vacuum", "vacuumfail"}
    /\ Len(entries[h]) = 2
    /\ data_end[h] > m_offset(entries[h][2].meta)
                       + m_compressed_size(entries[h][2].meta)

(* ---- a process that stops ------------------------------------------------ *)

\* The process of h stops: its stream is gone together with what it had
\* buffered and the kernel releases its lock.  fs and path are the files and
\* the path as the process left them.
Stopped(h, fs, path, op, pre) ==
  /\ LET c == Canon(fs, path, [fp EXCEPT ![h] = 0])
     IN /\ files' = c.files
        /\ pathIno' = c.path
        /\ fp' = c.fp
  /\ pc' = [pc EXCEPT ![h] = "closed"]
  /\ lock' = [lock EXCEPT ![h] = "UN"]
  /\ entries' = [entries EXCEPT ![h] = <<>>]
  /\ data_end' = [data_end EXCEPT ![h] = 0]
  /\ pending' = [pending EXCEPT ![h] = NoPending]
  /\ pg' = [g[h] EXCEPT !.lin = @ \cup {"crash"}]
  /\ g' = [g EXCEPT ![h] = NoHistory]
  /\ last' = Last(op, h, FALSE, <<>>, <<>>, 0, pre)
  /\ UNCHANGED <<active, nadds, nopens, nrems, commit>>

\* where bindle_vacuum can be stopped: before its first fseek on the archive,
\* at any later point before the rename, and after the rename
VacuumStops == {"start", "copy", "renamed"}

\* a vacuum that writes the archive in place instead of a temporary file
VacuumAtPathInPlace(old, new, stage) ==
  IF stage = "renamed" THEN new ELSE SubSeq(new, 1, Len(new) - FooterRawSize)

\* The bytes of the file the path names when vacuum is stopped at stage: all
\* writes of lines 255-305 go to the temporary file, which the rename of line
\* 310 puts at the path after it was written whole and closed.
VacuumAtPath(old, new, stage) ==
  IF stage = "renamed" THEN new ELSE old

\* bindle_vacuum(b), the process stopping at stage
vacuum_crash(h, u, stage) ==
  /\ pc[h] = "idle"
  /\ \A i \in 1..Len(entries[h]) :
       m_compressed_size(entries[h][i].meta) <= MaxFile
  /\ (\A i \in 1..Len(entries[h]) :
        m_offset(entries[h][i].meta) + m_compressed_size(entries[h][i].meta)
          <= Len(Stream(h))) => u = 0
  /\ LET old == fp[h]
         v == VacuumFile(Stream(h), entries[h], u)
         tmp == FreeInode(pathIno, fp)
         \* the first fseek on the archive (line 268) writes out what its
         \* stream had buffered
         kept == IF stage = "start" THEN files[old] ELSE Stream(h)
         at == VacuumAtPath(kept, v.file, stage)
         pre == [view |-> View(h), count |-> Len(entries[h]),
                 size |-> Len(files[pathIno]),
                 plain |-> /\ g[h].how \in {"fresh", "reopen"}
                           /\ g[h].lin \subseteq {"vacuum", "reopen"},
                 saved |-> g[h].ever /\ g[h].since = {},
                 whole |-> TRUE]
     IN /\ Len(v.file) <= MaxFile
        /\ stage = "start" => u = 0
        /\ IF stage = "renamed"
             THEN Stopped(h, [files EXCEPT ![old] = kept, ![tmp] = at], tmp,
                          "vacuum_crash", pre)
             ELSE Stopped(h, [files EXCEPT ![old] = at], pathIno,
                          "vacuum_crash", pre)

\* where bindle_save can be stopped once it has the lock: before its fseek,
\* after the fseek, with the index written and no footer, and with all but
\* the last byte of the footer written
SaveStops == {"lock", "seek", "index", "footer"}

\* bindle_save, lines 204-221, the process stopping at stage
save_crash(h, stage) ==
  /\ pc[h] = "save_ex"
  /\ NoOther(h, fp[h], {"SH", "EX"})
  /\ data_end[h] + Len(IndexBytes(entries[h])) + FooterRawSize <= MaxFile
  /\ LET all == IndexBytes(entries[h])
                  \o BindleFooterRaw(data_end[h], Len(entries[h]))
         n == IF stage = "seek" THEN 0
              ELSE IF stage = "index" THEN Len(all) - FooterRawSize
              ELSE Len(all) - 1
         f == IF stage = "lock" THEN files[fp[h]]
              ELSE WriteAt(Stream(h), data_end[h], SubSeq(all, 1, n))
         \* plain: the history is add and save calls, a save has completed
         \* and what it wrote reads as the bytes that were added
         pre == [NoPre EXCEPT
                   !.plain = /\ g[h].how = "fresh" /\ g[h].lin = {} /\ g[h].ever
                             /\ ViewOf(Stream(h), g[h].sv) = ExpView(g[h].cexp)]
     IN Stopped(h, [files EXCEPT ![fp[h]] = f], pathIno, "save_crash", pre)

\* one process, which may stop inside save and vacuum
NextCrash ==
  \/ \E h \in active, u \in UninitFill : bindle_open(h, u)
  \/ \E h \in active, name \in Names, compress \in BindleCompress,
        through \in BOOLEAN :
          /\ nadds < MaxAddsFail
          /\ bindle_add(h, name, Blob(nadds + 1), compress, through)
  \/ \E h \in active : save_begin(h)
  \/ \E h \in active : save_write(h)
  \/ \E h \in active : save_unlock(h)
  \/ \E h \in active : save_end(h)
  \/ \E h \in active, stage \in SaveStops : save_crash(h, stage)
  \/ \E h \in active, u \in UninitFill : bindle_vacuum(h, u)
  \/ \E h \in active, u \in UninitFill, stage \in VacuumStops :
       vacuum_crash(h, u, stage)
  \/ \E h \in active : bindle_close(h)

SpecCrash == Init /\ [][NextCrash]_vars

\* the archive a process finds at the path, as open with fill u parses it
AtPath(u) ==
  LET r == OpenParse(files[pathIno], u)
  IN [opened |-> r.handle /\ r.ok, view |-> ViewOf(files[pathIno], r.es)]

\* C12: on an archive made by add, save and vacuum calls and by close and
\* open after a save, whose state has been saved, when the process stops at
\* any step of vacuum, opening the path gives an
\* archive with the same names in the same order reading as the same bytes
\* as before the vacuum.
C12_VacuumCrashSafe ==
  (last.op = "vacuum_crash" /\ last.pre.plain /\ last.pre.saved) =>
    \A u \in UninitFill :
      /\ AtPath(u).opened
      /\ AtPath(u).view = last.pre.view

\* a vacuum stopped after its rename: the path names the compacted file of
\* an archive in which one name was added twice
C12_Witness ==
  /\ last.op = "vacuum_crash" /\ last.pre.plain /\ last.pre.saved
  /\ last.pre.count = 1 /\ nadds = 2
  /\ Len(files[pathIno]) < last.pre.size

\* C13: a save interrupted before its footer is completely written leaves the
\* archive on disk as the last completed save left it: opening the path gives
\* the names, in order, and the bytes of the last completed save, also when
\* add calls preceded the interrupted save.
C13_FailedSaveLeavesDisk ==
  (last.op = "save_crash" /\ last.pre.plain) =>
    \A u \in UninitFill :
      /\ AtPath(u).opened
      /\ AtPath(u).view = ExpView(pg.cexp)

(* ---- two processes saving ------------------------------------------------ *)

\* two processes that open, save and close
NextLive ==
  \/ \E h \in active, u \in UninitFill : bindle_open(h, u)
  \/ \E h \in active : save_begin(h)
  \/ \E h \in active : save_write(h)
  \/ \E h \in active : save_unlock(h)
  \/ \E h \in active : save_end(h)
  \/ \E h \in active : bindle_close(h)

\* A process inside bindle_save goes on running: a flock that can be granted
\* for good is granted, and the calls after it are made.  Nothing makes a
\* process call save or close.
SpecLive ==
  /\ InitMulti
  /\ [][NextLive]_vars
  /\ \A h \in Handles :
       WF_vars(save_write(h)) /\ WF_vars(save_unlock(h)) /\ WF_vars(save_end(h))

\* both handles are open on one file and inside save, waiting for the lock
BothSaving ==
  \A h \in Handles : pc[h] = "save_ex" /\ fp[h] = fp[1]

\* C20 (as claimed): when two handles on the same file have both called
\* save, both saves eventually get the exclusive lock and return.
C20_BothSavesReturn ==
  \A h \in Handles : BothSaving ~> (pc[h] = "idle")

\* h is inside save, waiting for the exclusive lock or, after its writes,
\* for the shared one
Waiting(h) == pc[h] \in {"save_ex", "save_sh"}

\* another handle on the file of h holds a lock and is not itself waiting
\* for one
HeldByOther(h) ==
  \E o \in Handles \ {h} :
    fp[o] = fp[h] /\ lock[o] # "UN" /\ ~Waiting(o)

\* C20 (amended): lock upgrade does not deadlock: a save waits forever, for
\* the exclusive lock or for the shared lock it takes back, only when again
\* and again another handle on the file holds a lock without itself waiting
\* for one (a handle that returned from its own save holds its shared lock
\* again and blocks the other save until it closes).
C20_NoUpgradeDeadlock ==
  \A h \in Handles :
    <>[]Waiting(h) => []<>HeldByOther(h)

\* both handles called save; the first has written and returned and holds
\* its shared lock again, the second still waits
C20_Witness ==
  /\ pc[1] = "idle" /\ lock[1] = "SH" /\ commit.writer = 1
  /\ pc[2] = "save_ex" /\ fp[2] = fp[1]
  /\ last.op = "save" /\ last.h = 1

====
